---- MODULE Spec2Model ----
(***************************************************************************)
(* A model of fortudon.py: the corpus parser (read_fortunes), the index    *)
(* file (make_fortune_data_file, fortune_file_data), the path resolver     *)
(* (fortune_files_from_paths), the weight calculator (check_percentages,   *)
(* adjust_weights_with_percentages, rselect_fortune_file), the             *)
(* rejection-sampling selector (get_random_fortune) and the pattern search *)
(* (filter_fortunes).                                                      *)
(*                                                                         *)
(* Text is a sequence of Unicode code points, a file is the sequence of    *)
(* lines that iterating a Python text file yields, and bytes are what      *)
(* str.encode('utf8') produces for those code points.  Python floats are   *)
(* modelled as exact rationals [n, d]; the markers tried (PctValues) are    *)
(* ones on which double arithmetic gives the same weights after round().   *)
(***************************************************************************)
EXTENDS Integers, Sequences, FiniteSets, TLC

VARIABLES
    mode,           \* which entry point this behaviour runs:
                    \* "read" | "select" | "paths" | "filter"
    \* ---- read_fortunes ----
    file,           \* the lines of the corpus file, each a sequence of code points
    ln,             \* number of lines the for-loop has consumed
    fortune_lines,  \* local: lines of the record being collected
    start,          \* local: offset of the record being collected, -1 if none
    pos,            \* local: running byte position
    first,          \* ghost: index of the line at which the record being collected began
    records,        \* the tuples yielded so far
    rpc,            \* "loop" | "done" | "dumped" | "loaded" | "extracted" | "idle"
    \* ---- make_fortune_data_file, fortune_file_data, the extraction ----
    sidecar,        \* the bytes of the index file next to the corpus file
    loaded,         \* what fortune_file_data returned
    extracted,      \* the record looked up and what seek + read gave for it
    \* ---- get_random_fortune ----
    data,           \* per fortune file, its pickled index: a sequence of [start, length]
    weighted,       \* parameter weighted
    pcts_in,        \* the percentages fortune_files_from_paths collected, before check_percentages
    min_length,     \* parameter min_length
    max_length,     \* parameter max_length: [set |-> FALSE] is None
    percentages,    \* local: what check_percentages returned
    weights,        \* local: [none |-> TRUE] is None
    attempt,        \* local: the rejection counter
    draws,          \* ghost: number of records drawn by secrets.choice(data)
    loads,          \* ghost: number of calls of fortune_file_data
    chosen,         \* the file and record of the last draw: [file, rec], 0 if none
    spc,            \* "resolve" | "weights" | "loop" | "returned" | "empty" | "fatal" | "idle"
    err,            \* the error that ended the call and the function that raised it
    \* ---- fortune_files_from_paths ----
    fortune_paths,  \* parameter: the path entries
    offensive,      \* parameter: "none" | "true" | "false"
    path_index,     \* number of entries the for-loop has consumed
    path_percentage, \* local "percentage": the pending marker
    fortune_files,  \* local: the files collected
    file_percentages, \* local "percentages": one entry per collected file
    origin,         \* ghost: per collected file, the index of the entry that gave it
    walked,         \* the result of the call
    ppc,            \* "loop" | "done" | "idle"
    \* ---- filter_fortunes ----
    corpus,         \* per fortune file: its name and the texts read_fortunes yields
    pattern,        \* the letter the regular expression searches for
    length_bounds,  \* parameters min_length and max_length
    file_no,        \* the file being read, counted from 1
    rec_no,         \* number of records of that file consumed
    found_first_match, \* local
    printed,        \* the fortunes written to stdout, in order
    fpc             \* "first" | "rest" | "remaining" | "done" | "nothing" | "idle"

rvars == <<file, ln, fortune_lines, start, pos, first, records, rpc>>
xvars == <<sidecar, loaded, extracted>>
svars == <<data, weighted, pcts_in, min_length, max_length, percentages, weights,
           attempt, draws, loads, chosen, spc, err>>
pvars == <<fortune_paths, offensive, path_index, path_percentage, fortune_files,
           file_percentages, origin, walked, ppc>>
fvars == <<corpus, pattern, length_bounds, file_no, rec_no, found_first_match, printed, fpc>>
vars == <<mode, rvars, xvars, svars, pvars, fvars>>

-----------------------------------------------------------------------------
(* Bounds *)
MaxLines == 5
MaxFiles == 2
MaxRecs == 3
MaxLen == 2

\* the N of the markers "N%" tried.  For these, with up to MaxFiles + 1 files of
\* up to MaxRecs + 1 records, Python's double arithmetic yields the same
\* integer weights as the exact rationals used here, and percentages that
\* differ from them by rounding in the last place at most.
PctValues == {0, 10, 30, 70}

(* Program constants *)
Percent == 37
Newline == 10
ATTEMPTS == 10000

-----------------------------------------------------------------------------
(* Text and bytes *)

RECURSIVE Concat(_)
Concat(ss) == IF ss = <<>> THEN <<>> ELSE Head(ss) \o Concat(Tail(ss))

\* str.encode('utf8') of one code point
Utf8Char(c) ==
    IF c < 128 THEN <<c>>
    ELSE IF c < 2048 THEN <<192 + (c \div 64), 128 + (c % 64)>>
    ELSE <<224 + (c \div 4096), 128 + ((c \div 64) % 64), 128 + (c % 64)>>

\* str.encode('utf8') of a string
Utf8(s) == Concat([i \in 1..Len(s) |-> Utf8Char(s[i])])

\* the delimiter line "%\n"
Delimiter == <<Percent, Newline>>

\* code points used in corpus text: "a", e-acute (2 bytes), euro sign (3 bytes)
TextWords == {<<97>>, <<233>>, <<97, 8364>>}

\* lines ending in a newline, and lines that can only end a file
TermLines == {Delimiter} \cup {w \o <<Newline>> : w \in TextWords}
LastLines == TermLines \cup {<<Percent>>} \cup TextWords

\* what iterating a text file can yield: only the last line may lack "\n"
Files ==
    {f \in UNION {[1..n -> LastLines] : n \in 0..MaxLines} :
        \A i \in 1..(Len(f) - 1) : f[i] \in TermLines}

-----------------------------------------------------------------------------
(* read_fortunes *)

\* "".join(fortune_lines)
Join(ls) == Concat(ls)

\* the length yielded when a delimiter line ends a record: len(fortune)
DelimitedLength(fortune) == Len(fortune)

\* the length yielded for the last record, at end of input: pos - start
FinalLength(p, s) == p - s

\* the position kept when the delimiter line heads the file: the "continue"
\* skips the update of pos
SkippedPos(p, line) == p

\* a position that is never advanced
StuckPos(p, line) == p

\* pos += len(line.encode('utf8'))
AdvancedPos(p, line) == p + Len(Utf8(line))

ReadInit ==
    /\ file \in Files
    /\ ln = 0
    /\ fortune_lines = <<>>
    /\ start = -1
    /\ pos = 0
    /\ first = 0
    /\ records = <<>>
    /\ rpc = "loop"

ReadIdle ==
    /\ file = <<>>
    /\ ln = 0
    /\ fortune_lines = <<>>
    /\ start = -1
    /\ pos = 0
    /\ first = 0
    /\ records = <<>>
    /\ rpc = "idle"

\* one iteration of "for line in fortune_file" on a delimiter line
ReadDelimiter ==
    /\ mode = "read" /\ rpc = "loop" /\ ln < Len(file)
    /\ file[ln + 1] = Delimiter
    /\ ln' = ln + 1
    /\ IF pos = 0
         THEN /\ pos' = SkippedPos(pos, file[ln + 1])
              /\ UNCHANGED <<fortune_lines, start, first, records>>
         ELSE /\ LET fortune == Join(fortune_lines)
                 IN records' =
                        IF fortune # <<>>
                          THEN Append(records,
                                 [start |-> start,
                                  length |-> DelimitedLength(fortune),
                                  fortune |-> fortune,
                                  line |-> first])
                          ELSE records
              /\ fortune_lines' = <<>>
              /\ start' = -1
              /\ first' = 0
              /\ pos' = AdvancedPos(pos, file[ln + 1])
    /\ UNCHANGED <<mode, file, rpc, xvars, svars, pvars, fvars>>

\* one iteration of "for line in fortune_file" on any other line
ReadText ==
    /\ mode = "read" /\ rpc = "loop" /\ ln < Len(file)
    /\ file[ln + 1] # Delimiter
    /\ ln' = ln + 1
    /\ start' = IF start = -1 THEN pos ELSE start
    /\ first' = IF start = -1 THEN ln + 1 ELSE first
    /\ fortune_lines' = Append(fortune_lines, file[ln + 1])
    /\ pos' = AdvancedPos(pos, file[ln + 1])
    /\ UNCHANGED <<mode, file, records, rpc, xvars, svars, pvars, fvars>>

\* the code after the loop: the last record, if any
ReadEnd ==
    /\ mode = "read" /\ rpc = "loop" /\ ln = Len(file)
    /\ LET fortune == Join(fortune_lines)
       IN records' =
              IF fortune # <<>>
                THEN Append(records,
                       [start |-> start,
                        length |-> FinalLength(pos, start),
                        fortune |-> fortune,
                        line |-> first])
                ELSE records
    /\ rpc' = "done"
    /\ UNCHANGED <<mode, file, ln, fortune_lines, start, pos, first, xvars, svars, pvars, fvars>>

-----------------------------------------------------------------------------
(* Python numbers: a float is modelled as an exact rational [n, d], d > 0 *)

Abs(x) == IF x < 0 THEN -x ELSE x

RECURSIVE Gcd(_, _)
Gcd(a, b) == IF b = 0 THEN a ELSE Gcd(b, a % b)

Rat(n, d) == LET g == Gcd(Abs(n), d) IN [n |-> n \div g, d |-> d \div g]
RatInt(k) == [n |-> k, d |-> 1]
RatAdd(a, b) == Rat(a.n * b.d + b.n * a.d, a.d * b.d)
RatMul(a, b) == Rat(a.n * b.n, a.d * b.d)
\* a / b for b # 0
RatDiv(a, b) == IF b.n > 0 THEN Rat(a.n * b.d, a.d * b.n)
                           ELSE Rat(-(a.n * b.d), a.d * (-b.n))
RatAbs(a) == [n |-> Abs(a.n), d |-> a.d]
RatGt(a, b) == a.n * b.d > b.n * a.d

\* int(round(x)): Python 3 rounds a half to the even neighbour
Round(x) ==
    LET q == x.n \div x.d
        r == x.n % x.d
    IN IF 2 * r < x.d THEN q
       ELSE IF 2 * r > x.d THEN q + 1
       ELSE IF q % 2 = 0 THEN q ELSE q + 1

RECURSIVE SumInts(_)
SumInts(ws) == IF ws = <<>> THEN 0 ELSE Head(ws) + SumInts(Tail(ws))

RECURSIVE SumRats(_)
SumRats(qs) == IF qs = <<>> THEN RatInt(0) ELSE RatAdd(Head(qs), SumRats(Tail(qs)))

\* a percentage entry: None, or a float
PNone == [set |-> FALSE, q |-> RatInt(0)]
PVal(q) == [set |-> TRUE, q |-> q]

\* the values of the entries that are not None, in order
RECURSIVE Given(_)
Given(ps) ==
    IF ps = <<>> THEN <<>>
    ELSE IF Head(ps).set THEN <<Head(ps).q>> \o Given(Tail(ps))
    ELSE Given(Tail(ps))

\* results of a call: a value, or the error that ended it
NoError == [type |-> "", in |-> ""]
Error(e, f) == [type |-> e, in |-> f]
Ok(v) == [ok |-> TRUE, val |-> v, err |-> NoError]
Fail(e, f) == [ok |-> FALSE, val |-> <<>>, err |-> Error(e, f)]

-----------------------------------------------------------------------------
(* check_percentages *)

\* the rescaled value of one entry when no entry is None:
\* abs(float(percentage) * (100.0 / percentage_sum))
Rescaled(q, percentage_sum) == RatAbs(RatMul(q, RatDiv(RatInt(100), percentage_sum)))

\* a check that rescales or passes any list, whatever its sum
CheckPercentagesNoLimit(ps) ==
    LET given_values == [i \in 1..Len(Given(ps)) |-> RatAbs(Given(ps)[i])]
        percentage_sum == SumRats(given_values)
    IN IF Len(ps) = Len(given_values)
         THEN IF Len(ps) > 0 /\ percentage_sum.n = 0
                THEN Fail("ZeroDivisionError", "check_percentages")
                ELSE Ok([i \in 1..Len(ps) |-> PVal(Rescaled(ps[i].q, percentage_sum))])
         ELSE Ok([i \in 1..Len(ps) |->
                    IF ps[i].set THEN PVal(RatAbs(ps[i].q)) ELSE PNone])

CheckPercentages(ps) ==
    LET given_values == [i \in 1..Len(Given(ps)) |-> RatAbs(Given(ps)[i])]
        percentage_sum == SumRats(given_values)
    IN IF RatGt(percentage_sum, RatInt(100)) THEN Fail("SystemExit(2)", "check_percentages")
       ELSE IF Len(ps) = Len(given_values)
         THEN IF Len(ps) > 0 /\ percentage_sum.n = 0
                THEN Fail("ZeroDivisionError", "check_percentages")
                ELSE Ok([i \in 1..Len(ps) |-> PVal(Rescaled(ps[i].q, percentage_sum))])
         ELSE Ok([i \in 1..Len(ps) |->
                    IF ps[i].set THEN PVal(RatAbs(ps[i].q)) ELSE PNone])

-----------------------------------------------------------------------------
(* adjust_weights_with_percentages *)

\* the weight of a file whose percentage is set
SetWeight(percentage, sum_of_weights) ==
    Round(RatDiv(RatMul(percentage, RatInt(sum_of_weights)), RatInt(100)))

\* the weight of a file whose percentage is None, sum_of_free_weights # 0
FreeWeight(weight, sum_of_percentages, sum_of_weights, sum_of_free_weights) ==
    Round(RatDiv(
        RatMul(RatMul(RatInt(weight), RatAdd(RatInt(100), RatMul(RatInt(-1), sum_of_percentages))),
               RatInt(sum_of_weights)),
        RatInt(100 * sum_of_free_weights)))

AdjustWeights(ws, ps) ==
    LET sum_of_weights == SumInts(ws)
        sum_of_free_weights ==
            SumInts([i \in 1..Len(ws) |-> IF ps[i].set THEN 0 ELSE ws[i]])
        sum_of_percentages == SumRats(Given(ps))
    IN IF sum_of_free_weights = 0 /\ \E i \in 1..Len(ws) : ~ps[i].set
         THEN Fail("ZeroDivisionError", "adjust_weights_with_percentages")
         ELSE Ok([i \in 1..Len(ws) |->
                    IF ps[i].set
                      THEN SetWeight(ps[i].q, sum_of_weights)
                      ELSE FreeWeight(ws[i], sum_of_percentages, sum_of_weights,
                                      sum_of_free_weights)])

-----------------------------------------------------------------------------
(* rselect_fortune_file *)

WNone == [none |-> TRUE, w |-> <<>>]
WList(w) == [none |-> FALSE, w |-> w]

\* a scan that stops one weight too late
ScanHitStrict(total, rand_limit) == total > rand_limit

\* the test that ends the cumulative scan
ScanHit(total, rand_limit) == total >= rand_limit

\* the scan "for weight in weights": the index returned, 0 if the loop falls through
RECURSIVE Scan(_, _, _, _)
Scan(w, rand_limit, i, total) ==
    IF i > Len(w) THEN 0
    ELSE IF ScanHit(total + w[i], rand_limit) THEN i
    ELSE Scan(w, rand_limit, i + 1, total + w[i])

\* number of equally likely outcomes of the random draw; 0: the draw itself fails
Outcomes(nfiles, wt) == IF wt.none THEN nfiles ELSE SumInts(wt.w)

\* the file returned when the random source gives rnd in 0..Outcomes-1
\* (secrets.choice picks fortune_files[rnd]; secrets.randbelow(total) gives rnd)
RSelect(nfiles, wt, rnd) ==
    IF wt.none THEN rnd + 1 ELSE Scan(wt.w, rnd + 1, 1, 0)

\* the error of a draw that has no outcome
RSelectError(wt) ==
    IF wt.none THEN Error("IndexError", "rselect_fortune_file")
    ELSE Error("ValueError", "rselect_fortune_file")


-----------------------------------------------------------------------------
(* get_random_fortune *)

\* the index make_fortune_data_file writes for a file of one-line ASCII records
\* of the lengths ls, separated by delimiter lines
RECURSIVE IndexOfLengths(_, _)
IndexOfLengths(ls, offset) ==
    IF ls = <<>> THEN <<>>
    ELSE <<[start |-> offset, length |-> Head(ls)]>>
         \o IndexOfLengths(Tail(ls), offset + Head(ls) + Len(Delimiter))

NoMax == [set |-> FALSE, v |-> 0]
Max(v) == [set |-> TRUE, v |-> v]

\* the percentages fortune_files_from_paths collects for file entries:
\* None without a marker, float(N) after a marker "N%"
PctInputs == {PNone} \cup {PVal(RatInt(N)) : N \in PctValues}

\* inputs without length bounds: up to MaxFiles files of up to MaxRecs records,
\* any markers, weighted or not
WideInputs ==
    /\ \E n \in 0..MaxFiles :
         /\ \E sizes \in [1..n -> 0..MaxRecs] :
              data = [i \in 1..n |-> IndexOfLengths([j \in 1..sizes[i] |-> 1], 0)]
         /\ pcts_in \in [1..n -> PctInputs]
    /\ weighted \in BOOLEAN
    /\ min_length = 0
    /\ max_length = NoMax

\* inputs with the length bounds main() passes for -s and -l (with -n N):
\* two files of at most one record each, no markers
BoundedInputs ==
    /\ \E ls \in [1..2 -> {<<>>} \cup {<<l>> : l \in 1..MaxLen}] :
         data = [i \in 1..2 |-> IndexOfLengths(ls[i], 0)]
    /\ pcts_in = [i \in 1..2 |-> PNone]
    /\ weighted = TRUE
    /\ \E N \in 1..MaxLen :
         \/ min_length = 0 /\ max_length = Max(N)
         \/ min_length = N /\ max_length = NoMax

SelectInit ==
    /\ WideInputs \/ BoundedInputs
    /\ percentages = <<>>
    /\ weights = WNone
    /\ attempt = 0
    /\ draws = 0
    /\ loads = 0
    /\ chosen = [file |-> 0, rec |-> 0]
    /\ spc = "resolve"
    /\ err = NoError

SelectIdle ==
    /\ data = <<>>
    /\ weighted = TRUE
    /\ pcts_in = <<>>
    /\ min_length = 0
    /\ max_length = NoMax
    /\ percentages = <<>>
    /\ weights = WNone
    /\ attempt = 0
    /\ draws = 0
    /\ loads = 0
    /\ chosen = [file |-> 0, rec |-> 0]
    /\ spc = "idle"
    /\ err = NoError

\* a rejection test that forgets the upper bound
RejectedNoMax(length, lo, hi) == length < lo

\* the rejection test of the loop
Rejected(length, lo, hi) == length < lo \/ (hi.set /\ length > hi.v)

\* a loop that forgets to count the rejection
StuckAttempt(a) == a

\* attempt += 1
NextAttempt(a) == a + 1

\* if attempt > ATTEMPTS
GiveUp(a) == a > ATTEMPTS

\* the weights of an unweighted call
EqualWeights(n) == WNone

\* fortune_files_from_paths: the percentages it returns, or its fatal exit.
\* The walk over the paths is not part of this action (SpecPaths has it);
\* pcts_in is what the walk collected.
Resolve ==
    /\ mode = "select" /\ spc = "resolve"
    /\ LET r == CheckPercentages(pcts_in)
       IN IF r.ok
            THEN percentages' = r.val /\ spc' = "weights" /\ err' = err
            ELSE percentages' = percentages /\ spc' = "fatal" /\ err' = r.err
    /\ UNCHANGED <<mode, rvars, xvars, pvars, fvars, data, weighted, pcts_in,
                   min_length, max_length, weights, attempt, draws, loads, chosen>>

\* "choose fortune_file": the weights, and attempt = 0
SetupWeights ==
    /\ mode = "select" /\ spc = "weights"
    /\ LET r == IF weighted
                  THEN AdjustWeights([i \in 1..Len(data) |-> Len(data[i])], percentages)
                  ELSE Ok(<<>>)
       IN IF r.ok
            THEN /\ weights' = IF weighted THEN WList(r.val) ELSE EqualWeights(Len(data))
                 /\ spc' = "loop" /\ err' = err
            ELSE /\ weights' = weights
                 /\ spc' = "fatal" /\ err' = r.err
    /\ attempt' = 0
    /\ loads' = IF weighted THEN loads + Len(data) ELSE loads
    /\ UNCHANGED <<mode, rvars, xvars, pvars, fvars, data, weighted, pcts_in,
                   min_length, max_length, percentages, draws, chosen>>

\* one iteration of "while True": the file is selected, its index is loaded
\* (loads) and a record of it is drawn (draws).  chosen keeps the draw of an
\* accepted record (or the file whose index was empty); the locals of a
\* rejected iteration are overwritten by the next one before they are read.
Draw ==
    /\ mode = "select" /\ spc = "loop"
    /\ LET n == Outcomes(Len(data), weights)
       IN IF n <= 0
            THEN /\ spc' = "fatal" /\ err' = RSelectError(weights)
                 /\ UNCHANGED <<attempt, draws, loads, chosen>>
            ELSE \E rnd \in 0..(n - 1) :
                   LET f == RSelect(Len(data), weights, rnd)
                   IN IF f = 0
                        THEN /\ spc' = "fatal" /\ err' = Error("Exception", "rselect_fortune_file")
                             /\ UNCHANGED <<attempt, draws, loads, chosen>>
                        ELSE IF data[f] = <<>>
                        THEN /\ spc' = "fatal" /\ err' = Error("IndexError", "get_random_fortune")
                             /\ chosen' = [file |-> f, rec |-> 0]
                             /\ loads' = loads + 1
                             /\ UNCHANGED <<attempt, draws>>
                        ELSE \E k \in 1..Len(data[f]) :
                               /\ draws' = IF draws <= ATTEMPTS + 1 THEN draws + 1 ELSE draws
                               /\ loads' = IF draws <= ATTEMPTS + 1 THEN loads + 1 ELSE loads
                               /\ IF Rejected(data[f][k].length, min_length, max_length)
                                    THEN /\ attempt' = NextAttempt(attempt)
                                         /\ spc' = IF GiveUp(attempt') THEN "empty" ELSE "loop"
                                         /\ UNCHANGED chosen
                                    ELSE /\ chosen' = [file |-> f, rec |-> k]
                                         /\ spc' = "returned"
                                         /\ UNCHANGED attempt
                               /\ err' = err
    /\ UNCHANGED <<mode, rvars, xvars, pvars, fvars, data, weighted, pcts_in,
                   min_length, max_length, percentages, weights>>

-----------------------------------------------------------------------------
(* make_fortune_data_file, fortune_file_data and the extraction of a record *)

\* the (start, length) tuples make_fortune_data_file collects from read_fortunes
IndexOf(recs) == [i \in 1..Len(recs) |-> [start |-> recs[i].start, length |-> recs[i].length]]

\* pickle.dump of a list of pairs of integers, reduced to its framing: the
\* number of pairs, then the two integers of every pair
PickleDump(d) == <<Len(d)>> \o Concat([i \in 1..Len(d) |-> <<d[i].start, d[i].length>>])

\* pickle.load: reads one pickled list from the head of the stream
PickleLoad(b) == [i \in 1..b[1] |-> [start |-> b[2 * i], length |-> b[2 * i + 1]]]

\* an index file opened for appending
Appended(old, new) == old \o new

\* open(fortune_index_file, 'wb') truncates: what the file holds after the dump
Overwritten(old, new) == new

NoSidecar == [exists |-> FALSE, bytes |-> <<>>]
Sidecar(b) == [exists |-> TRUE, bytes |-> b]

\* what the index file may hold before the update: nothing, the index of an
\* empty corpus, or the index of another corpus
PriorSidecars ==
    {NoSidecar, Sidecar(PickleDump(<<>>)),
     Sidecar(PickleDump(<<[start |-> 0, length |-> 1]>>))}

FortuneFileData(sc) ==
    IF ~sc.exists THEN Fail("ValueError", "fortune_file_data")
    ELSE Ok(PickleLoad(sc.bytes))

\* bytes.decode('utf8') of a well-formed byte string
RECURSIVE Utf8Decode(_)
Utf8Decode(b) ==
    IF b = <<>> THEN <<>>
    ELSE IF b[1] < 128 THEN <<b[1]>> \o Utf8Decode(SubSeq(b, 2, Len(b)))
    ELSE IF b[1] < 224
      THEN <<(b[1] - 192) * 64 + (b[2] - 128)>> \o Utf8Decode(SubSeq(b, 3, Len(b)))
      ELSE <<(b[1] - 224) * 4096 + (b[2] - 128) * 64 + (b[3] - 128)>>
           \o Utf8Decode(SubSeq(b, 4, Len(b)))

\* ffh.seek(start); ffh.read(length) on the file opened as UTF-8 text: seek goes
\* to a byte position, read returns up to length characters decoded from there
\* and fails when the position is inside a multi-byte character
Extraction(f, s, length) ==
    LET b == Utf8(Concat(f))
        rest == SubSeq(b, s + 1, Len(b))
    IN IF rest # <<>> /\ rest[1] >= 128 /\ rest[1] < 192
         THEN Fail("UnicodeDecodeError", "get_random_fortune")
         ELSE LET text == Utf8Decode(rest)
              IN Ok(SubSeq(text, 1, IF length < Len(text) THEN length ELSE Len(text)))

NotExtracted == [rec |-> 0, text |-> Ok(<<>>)]

IndexInit ==
    /\ sidecar \in PriorSidecars
    /\ loaded = Ok(<<>>)
    /\ extracted = NotExtracted

IndexIdle ==
    /\ sidecar = NoSidecar
    /\ loaded = Ok(<<>>)
    /\ extracted = NotExtracted

\* make_fortune_data_file, after its loop over read_fortunes: the dump
DumpIndex ==
    /\ mode = "read" /\ rpc = "done"
    /\ sidecar' = Sidecar(Overwritten(sidecar.bytes, PickleDump(IndexOf(records))))
    /\ rpc' = "dumped"
    /\ UNCHANGED <<mode, file, ln, fortune_lines, start, pos, first, records,
                   loaded, extracted, svars, pvars, fvars>>

\* fortune_file_data on the corpus file
LoadIndex ==
    /\ mode = "read" /\ rpc = "dumped"
    /\ loaded' = FortuneFileData(sidecar)
    /\ rpc' = "loaded"
    /\ UNCHANGED <<mode, file, ln, fortune_lines, start, pos, first, records,
                   sidecar, extracted, svars, pvars, fvars>>

\* get_random_fortune's lookup of one record of the loaded index
ExtractRecord ==
    /\ mode = "read" /\ rpc = "loaded" /\ loaded.ok
    /\ \E k \in 1..Len(loaded.val) :
         extracted' = [rec |-> k,
                       text |-> Extraction(file, loaded.val[k].start, loaded.val[k].length)]
    /\ rpc' = "extracted"
    /\ UNCHANGED <<mode, file, ln, fortune_lines, start, pos, first, records,
                   sidecar, loaded, svars, pvars, fvars>>

-----------------------------------------------------------------------------
(* fortune_files_from_paths *)

MaxPaths == 3

\* the N of the markers "N%" on the command line of this walk
MarkerValues == {30, 70}

\* file names: plain, offensive ("-o" at the end), and one that merely ends in "o"
FileNames == {<<"a">>, <<"b", "-", "o">>, <<"o">>}

\* str.endswith
EndsWith(name, suffix) ==
    /\ Len(name) >= Len(suffix)
    /\ SubSeq(name, Len(name) - Len(suffix) + 1, Len(name)) = suffix

OffensiveSuffix == <<"-", "o">>

\* a path entry: a marker (percentage_pattern matches), a directory
\* (os.path.isdir) with the indexed files glob finds in it, or a file
MarkerEntry(n) == [kind |-> "marker", n |-> n, name |-> <<>>, files |-> <<>>]
FileEntry(name) == [kind |-> "file", n |-> 0, name |-> name, files |-> <<>>]
DirEntry(files) == [kind |-> "dir", n |-> 0, name |-> <<>>, files |-> files]

\* what glob can return for a directory: up to two distinct files, in any order
DirListings ==
    {<<>>} \cup {<<x>> : x \in FileNames}
           \cup {l \in {<<x, y>> : x \in FileNames, y \in FileNames} : l[1] # l[2]}

PathEntries ==
    {MarkerEntry(n) : n \in MarkerValues} \cup {FileEntry(x) : x \in FileNames}
        \cup {DirEntry(l) : l \in DirListings}

\* the parameter offensive: None, True or False
OffNone == [set |-> FALSE, v |-> FALSE]
Off(v) == [set |-> TRUE, v |-> v]

\* the local percentage: None, or group(1) of the marker
NoMarker == [set |-> FALSE, n |-> 0]
Marker(n) == [set |-> TRUE, n |-> n]

\* a test with the sense of the filter inverted
Same(a, b) == a = b

Xor(a, b) == (a /\ ~b) \/ (b /\ ~a)

\* a marker that stays pending after the entry that follows it
StillPending(p) == p

\* "percentage = None" at the end of an iteration on a path
Consumed(p) == NoMarker

\* a directory marker given whole to every file
Whole(n, number_of_added_files) == RatInt(n)

\* int(percentage) / number_of_added_files
Split(n, number_of_added_files) == Rat(n, number_of_added_files)

\* the comprehension over files_in_path
RECURSIVE FilterOffensive(_, _)
FilterOffensive(files, off) ==
    IF files = <<>> THEN <<>>
    ELSE (IF ~Xor(EndsWith(Head(files), OffensiveSuffix), off.v)
            THEN <<Head(files)>> ELSE <<>>)
         \o FilterOffensive(Tail(files), off)

WalkInit ==
    /\ fortune_paths \in UNION {[1..n -> PathEntries] : n \in 0..MaxPaths}
    /\ offensive \in {OffNone, Off(TRUE), Off(FALSE)}
    /\ path_index = 0
    /\ path_percentage = NoMarker
    /\ fortune_files = <<>>
    /\ file_percentages = <<>>
    /\ origin = <<>>
    /\ walked = Ok(<<>>)
    /\ ppc = "loop"

WalkIdle ==
    /\ fortune_paths = <<>>
    /\ offensive = OffNone
    /\ path_index = 0
    /\ path_percentage = NoMarker
    /\ fortune_files = <<>>
    /\ file_percentages = <<>>
    /\ origin = <<>>
    /\ walked = Ok(<<>>)
    /\ ppc = "idle"

\* an iteration on a path_percentage marker
WalkMarker ==
    /\ mode = "paths" /\ ppc = "loop" /\ path_index < Len(fortune_paths)
    /\ fortune_paths[path_index + 1].kind = "marker"
    /\ path_percentage' = Marker(fortune_paths[path_index + 1].n)
    /\ path_index' = path_index + 1
    /\ UNCHANGED <<mode, rvars, xvars, svars, fvars, fortune_paths, offensive,
                   fortune_files, file_percentages, origin, walked, ppc>>

\* an iteration on a directory
WalkDirectory ==
    /\ mode = "paths" /\ ppc = "loop" /\ path_index < Len(fortune_paths)
    /\ fortune_paths[path_index + 1].kind = "dir"
    /\ LET found_files == fortune_paths[path_index + 1].files
           files_in_path == IF offensive.set THEN FilterOffensive(found_files, offensive)
                                             ELSE found_files
           number_of_added_files ==
               Len(fortune_files) + Len(files_in_path) - Len(file_percentages)
       IN /\ fortune_files' = fortune_files \o files_in_path
          /\ file_percentages' = file_percentages \o
                 [i \in 1..number_of_added_files |->
                     IF path_percentage.set
                       THEN PVal(Split(path_percentage.n, number_of_added_files))
                       ELSE PNone]
          /\ origin' = origin \o [i \in 1..Len(files_in_path) |-> path_index + 1]
    /\ path_percentage' = Consumed(path_percentage)
    /\ path_index' = path_index + 1
    /\ UNCHANGED <<mode, rvars, xvars, svars, fvars, fortune_paths, offensive, walked, ppc>>

\* an iteration on a file
WalkFile ==
    /\ mode = "paths" /\ ppc = "loop" /\ path_index < Len(fortune_paths)
    /\ fortune_paths[path_index + 1].kind = "file"
    /\ LET path == fortune_paths[path_index + 1].name
           dropped == offensive.set /\ Xor(EndsWith(path, OffensiveSuffix), offensive.v)
       IN IF dropped
            THEN UNCHANGED <<fortune_files, file_percentages, origin>>
            ELSE /\ fortune_files' = Append(fortune_files, path)
                 /\ file_percentages' = Append(file_percentages,
                        IF path_percentage.set THEN PVal(RatInt(path_percentage.n)) ELSE PNone)
                 /\ origin' = Append(origin, path_index + 1)
    /\ path_percentage' = Consumed(path_percentage)
    /\ path_index' = path_index + 1
    /\ UNCHANGED <<mode, rvars, xvars, svars, fvars, fortune_paths, offensive, walked, ppc>>

\* the return: check_percentages on the collected list
WalkEnd ==
    /\ mode = "paths" /\ ppc = "loop" /\ path_index = Len(fortune_paths)
    /\ walked' = LET r == CheckPercentages(file_percentages)
                 IN IF r.ok THEN Ok(<<r.val, fortune_files>>) ELSE r
    /\ ppc' = "done"
    /\ UNCHANGED <<mode, rvars, xvars, svars, fvars, fortune_paths, offensive, path_index,
                   path_percentage, fortune_files, file_percentages, origin>>

-----------------------------------------------------------------------------
(* filter_fortunes *)

MaxCorpus == 2

\* encode(text, 'rot13') of one code point
Rot13Char(c) ==
    IF (c >= 97 /\ c <= 109) \/ (c >= 65 /\ c <= 77) THEN c + 13
    ELSE IF (c >= 110 /\ c <= 122) \/ (c >= 78 /\ c <= 90) THEN c - 13
    ELSE c

Rot13(text) == [i \in 1..Len(text) |-> Rot13Char(text[i])]

\* the text as the file holds it when the decoding is left out
Undecoded(name, fortune) == fortune

\* rotfortune: the text decoded when the file's name ends in "-o"
RotFortune(name, fortune) ==
    IF EndsWith(name, OffensiveSuffix) THEN Rot13(fortune) ELSE fortune

\* regex_filter.search(text) for a pattern that is one letter
Search(letter, text) == \E i \in 1..Len(text) : text[i] = letter

\* the texts of the records tried: "a", "n" (rot13 of "a") and "bb"
FortuneTexts == {<<97>>, <<110>>, <<98, 98>>}

\* what read_fortunes yields for a file: up to two records, given by their texts
FortuneLists ==
    {<<>>} \cup {<<x>> : x \in FortuneTexts}
           \cup {<<x, y>> : x \in FortuneTexts, y \in FortuneTexts}

CorpusFiles ==
    {[name |-> nm, fortunes |-> l] : nm \in {<<"a">>, <<"b", "-", "o">>}, l \in FortuneLists}

\* min_length and max_length: none, a maximum, a minimum
LengthBounds ==
    {[min |-> 0, max |-> NoMax], [min |-> 0, max |-> Max(1)], [min |-> 2, max |-> NoMax]}

FilterInit ==
    /\ corpus \in UNION {[1..n -> CorpusFiles] : n \in 0..MaxCorpus}
    /\ pattern = 97
    /\ length_bounds \in LengthBounds
    /\ file_no = 1
    /\ rec_no = 0
    /\ found_first_match = FALSE
    /\ printed = <<>>
    /\ fpc = "first"

FilterIdle ==
    /\ corpus = <<>>
    /\ pattern = 97
    /\ length_bounds = [min |-> 0, max |-> NoMax]
    /\ file_no = 1
    /\ rec_no = 0
    /\ found_first_match = FALSE
    /\ printed = <<>>
    /\ fpc = "idle"

\* the record the loops look at next, and whether the length test skips it
NextFortune == corpus[file_no].fortunes[rec_no + 1]
Skipped(fortune) == Rejected(Len(fortune), length_bounds.min, length_bounds.max)

\* the pop of the first loop finds no file left
FilterNothing ==
    /\ mode = "filter" /\ fpc = "first" /\ file_no > Len(corpus)
    /\ fpc' = "nothing"
    /\ UNCHANGED <<mode, rvars, xvars, svars, pvars, corpus, pattern, length_bounds,
                   file_no, rec_no, found_first_match, printed>>

\* the first loop: next(fortunes) up to the first match; StopIteration pops the
\* next file
FilterFirst ==
    /\ mode = "filter" /\ fpc = "first" /\ file_no <= Len(corpus)
    /\ IF rec_no < Len(corpus[file_no].fortunes)
         THEN LET rotfortune == RotFortune(corpus[file_no].name, NextFortune)
              IN /\ rec_no' = rec_no + 1
                 /\ file_no' = file_no
                 /\ IF ~Skipped(NextFortune) /\ Search(pattern, rotfortune)
                      THEN /\ printed' = Append(printed, rotfortune)
                           /\ found_first_match' = TRUE
                           /\ fpc' = "rest"
                      ELSE UNCHANGED <<printed, found_first_match, fpc>>
         ELSE /\ file_no' = file_no + 1
              /\ rec_no' = 0
              /\ UNCHANGED <<printed, found_first_match, fpc>>
    /\ UNCHANGED <<mode, rvars, xvars, svars, pvars, corpus, pattern, length_bounds>>

\* the remaining fortunes of the file that held the first match
FilterRest ==
    /\ mode = "filter" /\ fpc = "rest"
    /\ IF rec_no < Len(corpus[file_no].fortunes)
         THEN LET fortune == Undecoded(corpus[file_no].name, NextFortune)
              IN /\ rec_no' = rec_no + 1
                 /\ file_no' = file_no
                 /\ printed' = IF ~Skipped(NextFortune) /\ Search(pattern, fortune)
                                 THEN Append(printed, fortune) ELSE printed
                 /\ fpc' = fpc
         ELSE /\ file_no' = file_no + 1
              /\ rec_no' = 0
              /\ fpc' = "remaining"
              /\ printed' = printed
    /\ UNCHANGED <<mode, rvars, xvars, svars, pvars, corpus, pattern, length_bounds,
                   found_first_match>>

\* the remaining fortune files, and the return
FilterRemaining ==
    /\ mode = "filter" /\ fpc = "remaining"
    /\ IF file_no > Len(corpus)
         THEN /\ fpc' = "done"
              /\ UNCHANGED <<file_no, rec_no, printed>>
         ELSE IF rec_no < Len(corpus[file_no].fortunes)
           THEN LET rotfortune == RotFortune(corpus[file_no].name, NextFortune)
                IN /\ rec_no' = rec_no + 1
                   /\ file_no' = file_no
                   /\ printed' = IF ~Skipped(NextFortune) /\ Search(pattern, rotfortune)
                                   THEN Append(printed, rotfortune) ELSE printed
                   /\ fpc' = fpc
           ELSE /\ file_no' = file_no + 1
                /\ rec_no' = 0
                /\ UNCHANGED <<printed, fpc>>
    /\ UNCHANGED <<mode, rvars, xvars, svars, pvars, corpus, pattern, length_bounds,
                   found_first_match>>

-----------------------------------------------------------------------------
(* Specifications *)

SpecReadInit ==
    mode = "read" /\ ReadInit /\ IndexInit /\ SelectIdle /\ WalkIdle /\ FilterIdle
SpecReadNext ==
    ReadDelimiter \/ ReadText \/ ReadEnd \/ DumpIndex \/ LoadIndex \/ ExtractRecord
SpecRead == SpecReadInit /\ [][SpecReadNext]_vars

SpecSelectInit ==
    mode = "select" /\ ReadIdle /\ IndexIdle /\ SelectInit /\ WalkIdle /\ FilterIdle
SpecSelectNext == Resolve \/ SetupWeights \/ Draw
SpecSelect == SpecSelectInit /\ [][SpecSelectNext]_vars

SpecPathsInit ==
    mode = "paths" /\ ReadIdle /\ IndexIdle /\ SelectIdle /\ WalkInit /\ FilterIdle
SpecPathsNext == WalkMarker \/ WalkDirectory \/ WalkFile \/ WalkEnd
SpecPaths == SpecPathsInit /\ [][SpecPathsNext]_vars

SpecFilterInit ==
    mode = "filter" /\ ReadIdle /\ IndexIdle /\ SelectIdle /\ WalkIdle /\ FilterInit
SpecFilterNext == FilterNothing \/ FilterFirst \/ FilterRest \/ FilterRemaining
SpecFilter == SpecFilterInit /\ [][SpecFilterNext]_vars

-----------------------------------------------------------------------------
(* Ground truth for the parser's claims *)

\* byte position, in the file's UTF-8 byte stream, of the first byte of line k
BytePos(f, k) == Len(Utf8(Concat(SubSeq(f, 1, k - 1))))

\* C1: every record emitted by read_fortunes has an offset equal to the byte
\* position, in the file's UTF-8 byte stream, of the first byte of its text
\* (also for a file whose first line is the delimiter line).
C1_OffsetIsBytePosition ==
    \A i \in 1..Len(records) : records[i].start = BytePos(file, records[i].line)

\* C2: every record emitted by read_fortunes has a length equal to the UTF-8
\* byte length of its concatenated lines, whether a delimiter line or the end
\* of input ends it and whether or not its text is ASCII.
C2_LengthIsByteLength ==
    \A i \in 1..Len(records) : records[i].length = Len(Utf8(records[i].fortune))

-----------------------------------------------------------------------------
(* Claims about get_random_fortune and the weight calculator *)

Terminated == spc \in {"returned", "empty", "fatal"}

\* SetupWeights has run and returned
WeightsSet == spc \in {"loop", "returned", "empty"} \/ (spc = "fatal" /\ err.in
                  \notin {"check_percentages", "adjust_weights_with_percentages"})

\* number of outcomes of the random draw for which rselect_fortune_file returns file i
SelectCount(i) ==
    Cardinality({rnd \in 0..(Outcomes(Len(data), weights) - 1) :
                    RSelect(Len(data), weights, rnd) = i})

\* C3: when the search is exhausted, get_random_fortune returns the empty
\* string after exactly ATTEMPTS rejected draws, not fewer and not one more.
C3_GivesUpAfterExactlyAttempts == spc = "empty" => draws = ATTEMPTS

\* C4: the rejection-sampling loop terminates after a bounded number of draws:
\* the number of draws never exceeds ATTEMPTS + 1 and every iteration that
\* stays in the loop is one more draw, so no call loops forever; a call that
\* leaves the loop has returned a fortune, returned the empty string or failed.
C4_Terminates ==
    /\ [](draws <= ATTEMPTS + 1)
    /\ [][(spc = "loop" /\ spc' = "loop") => draws' = draws + 1]_vars
    /\ [][(spc = "loop" /\ spc' # "loop") => Terminated']_vars

\* C4 witness: a call that ran the loop to its bound and then ended.
C4_RanToTheBound == spc = "empty" /\ attempt > ATTEMPTS

\* C5: a returned fortune was read from an index record whose length is within
\* min_length and (if set) max_length.
C5_AcceptedWithinBounds ==
    spc = "returned" =>
        LET r == data[chosen.file][chosen.rec]
        IN /\ min_length <= r.length
           /\ max_length.set => r.length <= max_length.v

\* C5 witness: a fortune returned under a maximum length, after a rejected draw.
C5_AcceptedAfterReject ==
    /\ spc = "returned" /\ attempt > 0
    /\ max_length.set
    /\ \E f \in 1..Len(data) : \E k \in 1..Len(data[f]) :
           data[f][k].length > max_length.v

\* C6: with non-negative integer weights of positive total, rselect_fortune_file
\* returns file i for exactly weights[i] of the total outcomes of the draw; a
\* file of weight 0 is never returned and the scan never falls through.
C6_SelectByWeight ==
    /\ err # Error("Exception", "rselect_fortune_file")
    /\ (~weights.none /\ SumInts(weights.w) > 0) =>
          /\ \A i \in 1..Len(data) : SelectCount(i) = weights.w[i]
          /\ SelectCount(0) = 0
          /\ (spc = "returned" => weights.w[chosen.file] > 0)

\* C6 witness: a file was selected by weight although the file before it has weight 0.
C6_SelectedPastZeroWeight ==
    /\ spc = "returned" /\ ~weights.none
    /\ chosen.file = 2 /\ weights.w[1] = 0 /\ weights.w[2] > 1

\* C7: the final weights give every file with a set percentage p exactly the
\* share p/100 of their sum, and the files with unset percentages shares of the
\* remainder proportional to their raw weights.
C7_ExactShares ==
    (WeightsSet /\ ~weights.none) =>
        LET w == weights.w
            total == SumInts(w)
            rest == RatAdd(RatInt(100), RatMul(RatInt(-1), SumRats(Given(percentages))))
            free == {i \in 1..Len(w) : ~percentages[i].set}
            raw(i) == Len(data[i])
            rawfree == SumInts([i \in 1..Len(w) |-> IF i \in free THEN raw(i) ELSE 0])
        IN /\ \A i \in 1..Len(w) : percentages[i].set =>
                 w[i] * 100 * percentages[i].q.d = percentages[i].q.n * total
           /\ \A i \in free :
                 w[i] * 100 * rest.d * rawfree = rest.n * total * raw(i)

\* C8: when the files with unset percentage have raw weights summing to zero,
\* adjust_weights_with_percentages returns normally and gives them weight 0.
C8_ZeroDenominatorGivesZero ==
    LET free == {i \in 1..Len(percentages) : ~percentages[i].set}
    IN (/\ weighted /\ spc \notin {"resolve", "weights"}
        /\ err.in # "check_percentages"
        /\ free # {}
        /\ \A i \in free : Len(data[i]) = 0)
       => /\ err.in # "adjust_weights_with_percentages"
          /\ ~weights.none
          /\ \A i \in free : weights.w[i] = 0

\* C9: in equal-weighting mode the percentage markers are still applied: a file
\* with a set percentage p is selected with share p/100.
C9_EqualModeHonoursPercentages ==
    (~weighted /\ WeightsSet) =>
        \A i \in 1..Len(percentages) : percentages[i].set =>
            SelectCount(i) * 100 * percentages[i].q.d
                = percentages[i].q.n * Outcomes(Len(data), weights)

\* C10: check_percentages turns a list whose entries are all set and sum to at
\* most 100 (a sum of 0 included) into a list that sums to exactly 100 with the
\* ratios kept; a list that sums to 100 comes back with the same values.
C10_RescaledToHundred ==
    (/\ spc # "resolve" /\ Len(pcts_in) > 0
     /\ \A i \in 1..Len(pcts_in) : pcts_in[i].set
     /\ ~RatGt(SumRats(Given(pcts_in)), RatInt(100)))
    => /\ err.in # "check_percentages"
       /\ Len(percentages) = Len(pcts_in)
       /\ SumRats(Given(percentages)) = RatInt(100)
       /\ \A i, j \in 1..Len(pcts_in) :
              /\ percentages[i].set
              /\ RatMul(percentages[i].q, pcts_in[j].q) = RatMul(percentages[j].q, pcts_in[i].q)
       /\ (SumRats(Given(pcts_in)) = RatInt(100) => percentages = pcts_in)

-----------------------------------------------------------------------------
(* Claims about the resolver's percentage limit and the files the selector picks *)

\* the set entries of a percentage list sum to more than 100
OverHundred(ps) == RatGt(SumRats(Given(ps)), RatInt(100))

C18_NeverPicksEmptyFile ==
    chosen.file # 0 => data[chosen.file] # <<>>

-----------------------------------------------------------------------------
(* Claims about fortune_files_from_paths *)

\* the path entry that gave the collected file i, and the number of collected
\* files that entry gave
EntryOf(i) == fortune_paths[origin[i]]
YieldOf(i) == Cardinality({j \in 1..Len(origin) : origin[j] = origin[i]})

\* the entry that gave file i comes immediately after a marker
AfterMarker(i) == origin[i] > 1 /\ fortune_paths[origin[i] - 1].kind = "marker"

\* C12: while and after fortune_files_from_paths walks the path entries, the
\* percentage list and the file list have equal length and correspond index by
\* index; before normalisation, each of the k files of an entry that comes
\* immediately after a marker N% has N/k, every other file is unset; so a marker
\* is used up by the one entry after it, even when that entry gives no file.
C12_MarkerSplitOverEntry ==
    /\ Len(file_percentages) = Len(fortune_files)
    /\ Len(origin) = Len(fortune_files)
    /\ \A i \in 1..Len(fortune_files) :
          /\ origin[i] \in 1..path_index
          /\ \/ EntryOf(i).kind = "file" /\ EntryOf(i).name = fortune_files[i]
             \/ /\ EntryOf(i).kind = "dir"
                /\ \E j \in 1..Len(EntryOf(i).files) : EntryOf(i).files[j] = fortune_files[i]
          /\ file_percentages[i] =
                 IF AfterMarker(i)
                   THEN PVal(Rat(fortune_paths[origin[i] - 1].n, YieldOf(i)))
                   ELSE PNone

\* C12 witness: "30%" before a directory of two files, then a file: the two
\* files have 15 each and the file after them is unset.
C12_SplitBetweenTwo ==
    /\ ppc = "done" /\ path_index = 3
    /\ fortune_paths[1] = MarkerEntry(30) /\ fortune_paths[2].kind = "dir"
    /\ fortune_paths[3].kind = "file"
    /\ file_percentages = <<PVal(RatInt(15)), PVal(RatInt(15)), PNone>>

\* every file the consumed entries name, in order, with no filter applied
RECURSIVE Discovered(_, _)
Discovered(paths, n) ==
    IF n = 0 THEN <<>>
    ELSE Discovered(paths, n - 1) \o
         (IF paths[n].kind = "file" THEN <<paths[n].name>>
          ELSE IF paths[n].kind = "dir" THEN paths[n].files
          ELSE <<>>)

\* C13: with offensive = False no collected or returned file has a name ending
\* in "-o", with offensive = True every one has, and with offensive = None
\* every discovered file is collected; for file entries and directory entries.
C13_OffensiveFilter ==
    /\ offensive = Off(FALSE) =>
          \A i \in 1..Len(fortune_files) : ~EndsWith(fortune_files[i], OffensiveSuffix)
    /\ offensive = Off(TRUE) =>
          \A i \in 1..Len(fortune_files) : EndsWith(fortune_files[i], OffensiveSuffix)
    /\ offensive = OffNone => fortune_files = Discovered(fortune_paths, path_index)
    /\ (ppc = "done" /\ walked.ok) => walked.val[2] = fortune_files

\* C13 witness: offensive = False, a directory holding "a" and "b-o", the file
\* "b-o" and the file "o": "a" and "o" are returned.
C13_DroppedOffensive ==
    /\ ppc = "done" /\ walked.ok /\ offensive = Off(FALSE)
    /\ fortune_paths = <<DirEntry(<<<<"a">>, <<"b", "-", "o">>>>),
                         FileEntry(<<"b", "-", "o">>), FileEntry(<<"o">>)>>
    /\ walked.val[2] = <<<<"a">>, <<"o">>>>

-----------------------------------------------------------------------------
(* Claims about the index file, the extraction and the records of a file *)

\* C14: after make_fortune_data_file has run on a corpus file, fortune_file_data
\* returns exactly the ordered (offset, length) pairs read_fortunes yields for
\* the file, whatever the index file held before.
C14_LoadReturnsWhatWasParsed ==
    /\ rpc \in {"dumped", "loaded", "extracted"} => sidecar.exists
    /\ rpc \in {"loaded", "extracted"} => loaded = Ok(IndexOf(records))

\* C14 witness: an index of two records, more than any index held before, has
\* been loaded back.
C14_LoadedTwoRecords ==
    /\ rpc = "loaded" /\ loaded.ok
    /\ Len(loaded.val) = 2 /\ loaded.val[2].start > 0

\* C15: for every record (offset, length, text) of read_fortunes, seeking to
\* offset and reading length in the same file returns exactly text, also when
\* the file begins with a delimiter line and when the record holds multi-byte
\* characters.
C15_ExtractionReturnsText ==
    rpc = "extracted" => extracted.text = Ok(records[extracted.rec].fortune)

\* the lines at which a maximal run of non-delimiter lines begins, and the
\* last line of the run that begins at line k
RunStarts(f) ==
    {k \in 1..Len(f) : f[k] # Delimiter /\ (k = 1 \/ f[k - 1] = Delimiter)}
RunEnd(f, k) ==
    CHOOSE j \in k..Len(f) :
        /\ \A m \in k..j : f[m] # Delimiter
        /\ j = Len(f) \/ f[j + 1] = Delimiter

\* C16: read_fortunes emits exactly one record per maximal run of consecutive
\* non-delimiter lines, in file order; every record has length >= 1; and
\* consecutive records do not overlap: the offset of record i+1 is at least
\* the offset of record i plus its length.
C16_OneRecordPerRun ==
    /\ \A i \in 1..Len(records) :
          /\ records[i].length >= 1
          /\ records[i].line \in RunStarts(file)
          /\ records[i].fortune =
                 Concat(SubSeq(file, records[i].line, RunEnd(file, records[i].line)))
    /\ \A i \in 1..(Len(records) - 1) :
          /\ records[i].line < records[i + 1].line
          /\ records[i + 1].start >= records[i].start + records[i].length
    /\ rpc \notin {"loop", "idle"} =>
          {records[i].line : i \in 1..Len(records)} = RunStarts(file)

\* C16 witness: a file with a leading delimiter line and two delimiter lines in
\* a row has been read to its end and gave two records.
C16_TwoRunsAmongDelimiters ==
    /\ rpc = "done" /\ Len(file) = 5 /\ Len(records) = 2
    /\ file[1] = Delimiter /\ file[3] = Delimiter /\ file[4] = Delimiter

-----------------------------------------------------------------------------
(* Claim about filter_fortunes *)

\* the fortunes of one file that are to be printed: those within the length
\* bounds whose text, decoded when the file's name ends in "-o", matches; decoded
RECURSIVE Matching(_, _)
Matching(name, fortunes) ==
    IF fortunes = <<>> THEN <<>>
    ELSE LET text == IF EndsWith(name, OffensiveSuffix) THEN Rot13(Head(fortunes))
                                                        ELSE Head(fortunes)
         IN (IF ~Skipped(Head(fortunes)) /\ Search(pattern, text) THEN <<text>> ELSE <<>>)
            \o Matching(name, Tail(fortunes))

\* C17: filter_fortunes prints exactly the records of the files that meet the
\* length bounds and whose text matches the pattern, the text of a file whose
\* name ends in "-o" being rot13-decoded before it is matched and before it is
\* printed; also the records after the first match in the first matching file.
C17_PrintsDecodedMatches ==
    fpc \in {"done", "nothing"} =>
        printed = Concat([i \in 1..Len(corpus) |->
                             Matching(corpus[i].name, corpus[i].fortunes)])

====
